---- MODULE Spec2Model ----
(***************************************************************************)
(* A model of push_notifications/models.py: the device tables (GCMDevice,  *)
(* APNSDevice, WNSDevice), the queryset bulk sends, the single-device      *)
(* sends, the APNS -> FCM token translator (resolve_fcm_token) and the FCM *)
(* result interpreter (deactivate_device_on_fcm_error).                    *)
(*                                                                         *)
(* The gateways (gcm / apns / wns modules, pyfcm, the batchImport          *)
(* endpoint) are the environment: every call to one is recorded in the     *)
(* trace of the operation that made it, and what it answers is an input    *)
(* of the action.                                                          *)
(***************************************************************************)
EXTENDS Integers, Sequences, FiniteSets

VARIABLES
    db,        \* the stored device rows, in insertion order (index = id)
    copies,    \* in-memory APNSDevice instances, each loaded from a row
    settings,  \* PUSH_NOTIFICATIONS_SETTINGS (the keys the code reads)
    last       \* the most recent operation: calls made, fields saved, outcome

vars == <<db, copies, settings, last>>

----------------------------------------------------------------------------
\* Bounds of the model.

MaxDevices == 2     \* rows registered over all three tables
MaxCopies == 2      \* in-memory APNSDevice instances alive at once

\* Python's None (a null column, a function returning nothing).
None == "None"

Platforms == {"GCM", "APNS", "WNS"}
Users == {None, "u1"}
RegIds == {"r1", "r2"}
FcmTokens == {"t1", "t2"}

\* Python truthiness of a nullable string: None and "" are falsy.
Truthy(x) == x \notin {None, ""}

\* The smallest element of a non-empty set of integers.
Min(S) == CHOOSE x \in S : \A y \in S : x <= y

\* The elements of a set of integers as an ascending sequence.
RECURSIVE Ascending(_)
Ascending(S) == IF S = {} THEN <<>> ELSE <<Min(S)>> \o Ascending(S \ {Min(S)})

\* How many positions of sequence s hold x.
Count(s, x) == Cardinality({i \in DOMAIN s : s[i] = x})

----------------------------------------------------------------------------
\* models.py: module constants.

configuration_errors == {"MismatchSenderId"}

unrecoverable_errors == {"MissingRegistration", "InvalidRegistration", "NotRegistered"}

\* Error strings FCM can put in a per-recipient result; NoErrorKey stands for
\* an entry without an 'error' key (a delivered message, or an empty entry).
NoErrorKey == "<no error key>"
ErrorCodes == unrecoverable_errors \cup configuration_errors \cup {"Unavailable"}

----------------------------------------------------------------------------
\* The device tables.

\* The tables whose Meta declares unique_together = (('user', 'registration_id'),).
\* WNSDevice.Meta declares none.
unique_together_tables == {"GCM", "APNS"}

\* A new row: Device.active takes the value given (default True), fcm_token
\* (a column of APNSDevice only; kept None elsewhere) is null.
NewRow(platform, user, registration_id, active) ==
    [platform |-> platform, user |-> user, registration_id |-> registration_id,
     active |-> active, fcm_token |-> None]

\* An instance slot holding no instance (id 0 is no row).
NoCopy == [id |-> 0, platform |-> None, user |-> None, registration_id |-> None,
           active |-> FALSE, fcm_token |-> None]

\* The ids of the rows of one table.
Table(platform) == {d \in DOMAIN db : db[d].platform = platform}

\* Whether the table's unique constraint has a row with this pair.
Duplicates(platform, user, registration_id) ==
    /\ platform \in unique_together_tables
    /\ \E d \in Table(platform) :
          db[d].user = user /\ db[d].registration_id = registration_id

\* An FCM result nobody received yet.
NoResult == [failure |-> 0, results |-> <<>>]

\* The record of an operation that did nothing.  returned is <<>> for a call
\* that returned None and <<v>> for one that returned v; response and result
\* are what the conversion endpoint and FCM answered, when they were asked.
NoOp == [op |-> "init", target |-> None, trace |-> <<>>, saved |-> <<>>,
         raised |-> "none", returned |-> <<>>, response |-> <<>>,
         result |-> NoResult]

\* Model.objects.create(user=, registration_id=, active=).  A duplicate pair
\* with a real user violates the constraint (IntegrityError).  With user NULL
\* the backend decides (SQL treats NULLs as distinct; some backends do not),
\* so both outcomes are possible: rejected says which one happened.
Register(platform, user, registration_id, active, rejected) ==
    /\ Len(db) < MaxDevices
    /\ rejected =>
          /\ Duplicates(platform, user, registration_id)
    /\ ~rejected =>
          \/ ~Duplicates(platform, user, registration_id)
          \/ user = None
    /\ db' = IF rejected THEN db
             ELSE Append(db, NewRow(platform, user, registration_id, active))
    /\ last' = [NoOp EXCEPT !.op = "register",
                            !.target = [platform |-> platform, user |-> user,
                                        registration_id |-> registration_id],
                            !.raised = IF rejected THEN "IntegrityError" ELSE "none",
                            !.returned = IF rejected THEN <<>> ELSE <<Len(db) + 1>>]
    /\ UNCHANGED <<copies, settings>>

----------------------------------------------------------------------------
\* Queryset bulk sends.

\* The bulk gateway function each queryset class imports.
bulk_gateway(platform) ==
    CASE platform = "GCM" -> "gcm_send_bulk_message"
      [] platform = "APNS" -> "apns_send_bulk_message"
      [] platform = "WNS" -> "wns_send_bulk_message"

\* The queryset taken without the filter (every row, active or not).
filter_active_drop(qs) == qs

\* self.filter(active=True): the rows of the queryset that are active.
filter_active(qs) == {d \in qs : db[d].active}

\* list(self.filter(active=True).values_list('registration_id', flat=True)),
\* in id order.
reg_ids_of(qs) ==
    LET ids == Ascending(filter_active(qs))
    IN  [i \in DOMAIN ids |-> db[ids[i]].registration_id]

\* What the bulk gateway can answer for n recipients: for GCM an FCM result
\* (a failure count and one entry per recipient), for the others a value the
\* queryset only passes on.
BulkEntries == {[error |-> NoErrorKey], [error |-> "NotRegistered"]}
BulkAnswers(platform, n) ==
    IF platform = "GCM"
    THEN [failure : 0..n, results : [1..n -> BulkEntries]]
    ELSE {"gateway_result"}

\* <Platform>DeviceQuerySet.send_message on the queryset holding the rows qs.
\* "if self:" is false for a queryset without rows: nothing is done and None
\* is returned.  Otherwise the gateway is called once, with the ids of the
\* active rows, and its answer is returned.
QuerySetSendMessage(platform, qs) ==
    /\ qs \subseteq Table(platform)
    /\ IF qs # {}
       THEN \E answer \in BulkAnswers(platform, Len(reg_ids_of(qs))) :
               last' = [NoOp EXCEPT
                          !.op = "bulk",
                          !.target = [platform |-> platform, qs |-> qs],
                          !.trace = <<[ev |-> bulk_gateway(platform),
                                       arg |-> reg_ids_of(qs)]>>,
                          !.returned = <<answer>>]
       ELSE last' = [NoOp EXCEPT
                          !.op = "bulk",
                          !.target = [platform |-> platform, qs |-> qs]]
    /\ UNCHANGED <<db, copies, settings>>

----------------------------------------------------------------------------
\* Single-device sends of GCMDevice and WNSDevice: the gateway is called with
\* self.registration_id (a column no operation changes, so the instance and
\* the row agree on it); self.active is not read.

GCMDeviceSendMessage(d) ==
    /\ d \in Table("GCM")
    /\ last' = [NoOp EXCEPT !.op = "send", !.target = d,
                            !.trace = <<[ev |-> "gcm_send_message",
                                         arg |-> <<db[d].registration_id>>]>>,
                            !.returned = <<"gateway_result">>]
    /\ UNCHANGED <<db, copies, settings>>

WNSDeviceSendMessage(d) ==
    /\ d \in Table("WNS")
    /\ last' = [NoOp EXCEPT !.op = "send", !.target = d,
                            !.trace = <<[ev |-> "wns_send_message",
                                         arg |-> <<db[d].registration_id>>]>>,
                            !.returned = <<"gateway_result">>]
    /\ UNCHANGED <<db, copies, settings>>

----------------------------------------------------------------------------
\* Registration and dispatch over the three tables.

Init ==
    /\ db = <<>>
    /\ copies = [c \in 1..MaxCopies |-> NoCopy]
    /\ settings = [APNS_USE_FCM |-> FALSE]
    /\ last = NoOp

Next ==
    \/ \E p \in Platforms, u \in Users, r \in RegIds, a \in BOOLEAN, rej \in BOOLEAN :
          Register(p, u, r, a, rej)
    \/ \E p \in Platforms, qs \in SUBSET DOMAIN db : QuerySetSendMessage(p, qs)
    \/ \E d \in DOMAIN db : GCMDeviceSendMessage(d)
    \/ \E d \in DOMAIN db : WNSDeviceSendMessage(d)

Spec == Init /\ [][Next]_vars

----------------------------------------------------------------------------
\* The single-device APNS path.  A call works on an in-memory instance and on
\* the table; cs ("call state") carries both through the call, with the
\* network calls made (trace), the update_fields of each save (saved), the
\* exception raised, if any, and the value returned.

BeginCall(c) ==
    [device |-> copies[c], db |-> db, trace |-> <<>>, saved |-> <<>>,
     raised |-> "none", returned |-> <<>>, response |-> <<>>,
     result |-> NoResult]

\* A save without update_fields: every column of the row takes the
\* instance's value.
save_every_field(cs, update_fields) ==
    [cs EXCEPT !.db = [cs.db EXCEPT ![cs.device.id] =
                          [f \in DOMAIN cs.db[cs.device.id] |-> cs.device[f]]],
               !.saved = Append(cs.saved, update_fields)]

\* device.save(update_fields=...): the named columns of the instance's row
\* take the instance's values; the other columns of the row stay.
save(cs, update_fields) ==
    [cs EXCEPT !.db = [cs.db EXCEPT ![cs.device.id] =
                          [f \in DOMAIN cs.db[cs.device.id] |->
                              IF f \in update_fields THEN cs.device[f]
                              ELSE cs.db[cs.device.id][f]]],
               !.saved = Append(cs.saved, update_fields)]

\* The entries the batchImport endpoint can answer with (one without "OK"
\* carries no registration_token: None), and its answers: the request names
\* one token, the answer holds at most one entry.
ConversionEntries ==
    [apns_token : RegIds, status : {"OK"}, registration_token : FcmTokens]
    \cup [apns_token : RegIds, status : {"ERROR"}, registration_token : {None}]
Responses == UNION {[1..n -> ConversionEntries] : n \in {0, 1}}

\* The loop of resolve_fcm_token: the registration_token of the first entry
\* whose apns_token is the device's and whose status is "OK"; None without one.
matching_token(response, registration_id) ==
    LET hits == {i \in DOMAIN response :
                    /\ response[i].apns_token = registration_id
                    /\ response[i].status = "OK"}
    IN  IF hits = {} THEN None ELSE response[Min(hits)].registration_token

\* The translation without its early return: the endpoint is asked whether
\* or not the instance has a token.
resolve_fcm_token_always(cs, response) ==
    LET posted == [cs EXCEPT
                     !.trace = Append(cs.trace, [ev |-> "conversion_url",
                                                 arg |-> cs.device.registration_id]),
                     !.response = response]
        fcm_token == matching_token(response, cs.device.registration_id)
    IN  IF Truthy(fcm_token)
        THEN save([posted EXCEPT !.device.fcm_token = fcm_token], {"fcm_token"})
        ELSE posted

\* resolve_fcm_token(device), the endpoint answering response: nothing when
\* the instance has a token; else one POST, and the token found, if any, is
\* set on the instance and saved with update_fields=('fcm_token',).
resolve_fcm_token(cs, response) ==
    IF Truthy(cs.device.fcm_token)
    THEN cs
    ELSE LET posted == [cs EXCEPT
                          !.trace = Append(cs.trace, [ev |-> "conversion_url",
                                                      arg |-> cs.device.registration_id]),
                          !.response = response]
             fcm_token == matching_token(response, cs.device.registration_id)
         IN  IF Truthy(fcm_token)
             THEN save([posted EXCEPT !.device.fcm_token = fcm_token], {"fcm_token"})
             ELSE posted

\* The results the interpreter can be handed: a failure count and the first
\* recipient's entry, with or without an 'error' key.
ResultEntries == [error : ErrorCodes \cup {NoErrorKey}]
Results == [failure : {0, 1}, results : [1..1 -> ResultEntries]]

\* The results notify_single_device returns for its one recipient: delivered
\* (failure 0, no 'error' key) or failed with an error.
SingleDeviceResults ==
    {r \in Results : (r.failure = 0) <=> (r.results[1].error = NoErrorKey)}

\* The interpreter without its configuration_errors branch.
deactivate_ignoring_configuration_errors(cs, result) ==
    LET seen == [cs EXCEPT !.result = result]
    IN  IF result.failure > 0
        THEN IF result.results[1].error = NoErrorKey
             THEN [seen EXCEPT !.raised = "KeyError"]
             ELSE IF result.results[1].error \in unrecoverable_errors
             THEN save([seen EXCEPT !.device.active = FALSE], {"active"})
             ELSE seen
        ELSE seen

\* deactivate_device_on_fcm_error(device, result).  result['results'][0]['error']
\* is a KeyError when the entry has no 'error' key.
deactivate_device_on_fcm_error(cs, result) ==
    LET seen == [cs EXCEPT !.result = result]
    IN  IF result.failure > 0
        THEN IF result.results[1].error = NoErrorKey
             THEN [seen EXCEPT !.raised = "KeyError"]
             ELSE IF result.results[1].error \in unrecoverable_errors
             THEN save([seen EXCEPT !.device.active = FALSE], {"active"})
             ELSE IF result.results[1].error \in configuration_errors
             THEN [seen EXCEPT !.raised = "ImproperlyConfigured"]
             ELSE seen
        ELSE seen

\* send_message choosing FCM on use_fcm alone, whether or not the instance
\* has a token after the translation.
APNSDevice_send_message_without_fallback(cs, response, result) ==
    LET use_fcm == settings.APNS_USE_FCM
        resolved == IF use_fcm /\ ~Truthy(cs.device.fcm_token)
                    THEN resolve_fcm_token(cs, response)
                    ELSE cs
    IN  IF use_fcm
        THEN deactivate_device_on_fcm_error(
                 [resolved EXCEPT
                    !.trace = Append(resolved.trace,
                                     [ev |-> "notify_single_device",
                                      arg |-> resolved.device.fcm_token])],
                 result)
        ELSE [resolved EXCEPT
                !.trace = Append(resolved.trace,
                                 [ev |-> "apns_send_message",
                                  arg |-> resolved.device.registration_id]),
                !.returned = <<"gateway_result">>]

\* APNSDevice.send_message(message): the translation when FCM is preferred
\* and the instance has no token; then FCM's single-device API and the
\* interpreter of its result (the method returns None), or else the native
\* gateway, whose answer is returned.
APNSDevice_send_message(cs, response, result) ==
    LET use_fcm == settings.APNS_USE_FCM
        resolved == IF use_fcm /\ ~Truthy(cs.device.fcm_token)
                    THEN resolve_fcm_token(cs, response)
                    ELSE cs
    IN  IF use_fcm /\ Truthy(resolved.device.fcm_token)
        THEN deactivate_device_on_fcm_error(
                 [resolved EXCEPT
                    !.trace = Append(resolved.trace,
                                     [ev |-> "notify_single_device",
                                      arg |-> resolved.device.fcm_token])],
                 result)
        ELSE [resolved EXCEPT
                !.trace = Append(resolved.trace,
                                 [ev |-> "apns_send_message",
                                  arg |-> resolved.device.registration_id]),
                !.returned = <<"gateway_result">>]

\* The end of a call on instance c: the instance and the table are as the
\* call left them, and last records the call.
EndCall(op, c, cs) ==
    /\ db' = cs.db
    /\ copies' = [copies EXCEPT ![c] = cs.device]
    /\ last' = [op |-> op, target |-> c, trace |-> cs.trace, saved |-> cs.saved,
                raised |-> cs.raised, returned |-> cs.returned,
                response |-> cs.response, result |-> cs.result]
    /\ UNCHANGED settings

\* APNSDevice.objects.get(pk=d): instance slot c holds a fresh copy of row d.
Load(c, d) ==
    /\ d \in Table("APNS")
    /\ copies' = [copies EXCEPT ![c] =
                     [id |-> d, platform |-> db[d].platform, user |-> db[d].user,
                      registration_id |-> db[d].registration_id,
                      active |-> db[d].active, fcm_token |-> db[d].fcm_token]]
    /\ last' = [NoOp EXCEPT !.op = "load", !.target = c]
    /\ UNCHANGED <<db, settings>>

\* The inputs a call reads: the endpoint is asked only by an instance without
\* a token, and FCM answers only when it was called.
ResponsesRead(device, wanted) ==
    IF wanted /\ ~Truthy(device.fcm_token) THEN Responses ELSE {<<>>}
ResultsRead(cs) ==
    IF cs.trace # <<>> /\ cs.trace[Len(cs.trace)].ev = "notify_single_device"
    THEN SingleDeviceResults ELSE {NoResult}

ResolveFcmToken(c) ==
    /\ copies[c].id # 0
    /\ \E response \in ResponsesRead(copies[c], TRUE) :
          EndCall("resolve", c, resolve_fcm_token(BeginCall(c), response))

DeactivateDeviceOnFcmError(c) ==
    /\ copies[c].id # 0
    /\ \E result \in Results :
          EndCall("interpret", c, deactivate_device_on_fcm_error(BeginCall(c), result))

APNSDeviceSendMessage(c) ==
    /\ copies[c].id # 0
    /\ \E response \in ResponsesRead(copies[c], settings.APNS_USE_FCM) :
          \E result \in ResultsRead(APNSDevice_send_message(BeginCall(c), response, NoResult)) :
             EndCall("send", c, APNSDevice_send_message(BeginCall(c), response, result))

\* One registered APNS device, under either setting of APNS_USE_FCM.
InitAPNS ==
    /\ db = <<NewRow("APNS", "u1", "r1", TRUE)>>
    /\ copies = [c \in 1..MaxCopies |-> NoCopy]
    /\ settings \in [APNS_USE_FCM : BOOLEAN]
    /\ last = NoOp

NextAPNS ==
    \/ \E c \in 1..MaxCopies, d \in DOMAIN db : Load(c, d)
    \/ \E c \in 1..MaxCopies : ResolveFcmToken(c)
    \/ \E c \in 1..MaxCopies : DeactivateDeviceOnFcmError(c)
    \/ \E c \in 1..MaxCopies : APNSDeviceSendMessage(c)

SpecAPNS == InitAPNS /\ [][NextAPNS]_vars

----------------------------------------------------------------------------
\* Properties.

\* The delivery calls (to either gateway) in a trace of the APNS path.
Deliveries(trace) ==
    {i \in DOMAIN trace : trace[i].ev \in {"notify_single_device", "apns_send_message"}}

\* The conversion-endpoint calls in a trace of the APNS path.
Conversions(trace) == {i \in DOMAIN trace : trace[i].ev = "conversion_url"}

\* Whether some save of the operation had exactly these update_fields.
Saved(op, fields) == \E i \in DOMAIN op.saved : op.saved[i] = fields

\* C1: a bulk send on a queryset with no active device (empty, or holding
\* only inactive devices) calls no gateway and returns None, and no bulk
\* gateway call has an empty recipient list.
C1_NoCallWithoutActiveDevice ==
    last.op = "bulk" =>
       /\ (\A d \in last.target.qs : ~db[d].active) =>
             (last.trace = <<>> /\ last.returned = <<>>)
       /\ \A i \in DOMAIN last.trace : Len(last.trace[i].arg) > 0

\* C2: when the interpreter sees failure > 0 and MismatchSenderId as the
\* first recipient's error, ImproperlyConfigured is raised, also out of
\* APNSDevice.send_message, and the interpreter changes and saves nothing:
\* active keeps its value in the instance and in the row.
C2_ConfigurationErrorRaises ==
    [][(/\ last'.op \in {"interpret", "send"}
        /\ last'.result.failure > 0
        /\ last'.result.results[1].error = "MismatchSenderId")
       => /\ last'.raised = "ImproperlyConfigured"
          /\ copies'[last'.target].active = copies[last'.target].active
          /\ \A d \in DOMAIN db : db'[d].active = db[d].active
          /\ ~Saved(last', {"active"})
          /\ last'.op = "interpret" =>
                (db' = db /\ copies' = copies /\ last'.saved = <<>>)]_vars

\* Reached: a send_message that ended with ImproperlyConfigured.
C2_RaisedOutOfSendMessage ==
    /\ last.op = "send"
    /\ last.result.failure > 0
    /\ last.result.results[1].error = "MismatchSenderId"
    /\ last.raised = "ImproperlyConfigured"

\* C3: the interpreter deactivates the device, saving only active, when
\* failure > 0 and the first error is unrecoverable; for failure = 0 and for
\* any other first entry that is no configuration error, an entry without
\* an error code included, it changes nothing and raises nothing.
C3_Classification ==
    [][last'.op = "interpret" =>
          LET result == last'.result
              error == result.results[1].error
              c == last'.target
          IN  IF result.failure > 0 /\ error \in unrecoverable_errors
              THEN /\ ~copies'[c].active
                   /\ ~db'[copies[c].id].active
                   /\ last'.saved = <<{"active"}>>
                   /\ last'.raised = "none"
              ELSE IF result.failure > 0 /\ error \in configuration_errors
              THEN TRUE
              ELSE /\ last'.raised = "none"
                   /\ last'.saved = <<>>
                   /\ db' = db
                   /\ copies' = copies]_vars

\* C4: a bulk send applies the interpreter per recipient, by position: after
\* a GCM bulk send whose result reports failures, the device at each
\* position whose entry carries an unrecoverable error is inactive, and the
\* devices at the other positions are as they were.
C4_BulkInterpretsPerRecipient ==
    [][(/\ last'.op = "bulk"
        /\ last'.target.platform = "GCM"
        /\ last'.trace # <<>>
        /\ last'.returned[1].failure > 0)
       => LET ids == Ascending(filter_active(last'.target.qs))
              results == last'.returned[1].results
          IN  \A i \in DOMAIN ids :
                 IF results[i].error \in unrecoverable_errors
                 THEN ~db'[ids[i]].active
                 ELSE db'[ids[i]].active]_vars

\* C5 as stated: once the stored fcm_token of a device is set it never
\* changes, and no later resolve_fcm_token or send_message for that device
\* calls the conversion endpoint.
C5_StoredTokenNeverRecomputed ==
    [][\A d \in DOMAIN db :
          Truthy(db[d].fcm_token) =>
             /\ db'[d].fcm_token = db[d].fcm_token
             /\ (last'.op \in {"resolve", "send"} /\ copies[last'.target].id = d)
                   => Conversions(last'.trace) = {}]_vars

\* C5 as amended: resolve_fcm_token on an instance whose fcm_token is set
\* makes no network call and saves nothing, and send_message on such an
\* instance never calls the conversion endpoint; neither changes the
\* instance's fcm_token nor the stored one.
C5_InstanceTokenIdempotent ==
    [][(/\ last'.op \in {"resolve", "send"}
        /\ Truthy(copies[last'.target].fcm_token))
       => /\ Conversions(last'.trace) = {}
          /\ last'.op = "resolve" => last'.trace = <<>>
          /\ ~Saved(last', {"fcm_token"})
          /\ copies'[last'.target].fcm_token = copies[last'.target].fcm_token
          /\ \A d \in DOMAIN db : db'[d].fcm_token = db[d].fcm_token]_vars

\* Reached: resolve_fcm_token returned at once on an instance with a token.
C5_ResolvedWithTokenSet ==
    /\ last.op = "resolve"
    /\ last.trace = <<>>
    /\ Truthy(copies[last.target].fcm_token)
    /\ db[copies[last.target].id].fcm_token = copies[last.target].fcm_token

\* C6: every APNSDevice.send_message calls exactly one delivery gateway.
\* With APNS_USE_FCM and no token on the instance it first asks the
\* conversion endpoint, once; with an "OK" entry for the device's
\* registration_id it then calls FCM's single-device API with that token and
\* interprets the result; with none, fcm_token stays None, nothing is
\* raised, and the native gateway gets the registration_id.
C6_TranslateThenDeliverOnce ==
    [][last'.op = "send" =>
          LET c == last'.target
              trace == last'.trace
              response == last'.response
              registration_id == copies[c].registration_id
              hits == {i \in DOMAIN response :
                          /\ response[i].apns_token = registration_id
                          /\ response[i].status = "OK"}
          IN  /\ Cardinality(Deliveries(trace)) = 1
              /\ (settings.APNS_USE_FCM /\ ~Truthy(copies[c].fcm_token)) =>
                    /\ Len(trace) = 2
                    /\ trace[1] = [ev |-> "conversion_url", arg |-> registration_id]
                    /\ IF hits # {}
                       THEN /\ trace[2].ev = "notify_single_device"
                            /\ trace[2].arg \in
                                  {response[i].registration_token : i \in hits}
                            /\ copies'[c].fcm_token = trace[2].arg
                            /\ last'.result \in SingleDeviceResults
                       ELSE /\ trace[2] = [ev |-> "apns_send_message",
                                           arg |-> registration_id]
                            /\ copies'[c].fcm_token = None
                            /\ db'[copies[c].id].fcm_token = db[copies[c].id].fcm_token
                            /\ last'.saved = <<>>
                            /\ last'.result = NoResult
                            /\ last'.raised = "none"]_vars

\* Reached: the endpoint answered not "OK" for the device's token and the
\* send went on to the native gateway.
C6_FellBackToNativeGateway ==
    /\ last.op = "send"
    /\ settings.APNS_USE_FCM
    /\ Len(last.trace) = 2
    /\ last.trace[1].ev = "conversion_url"
    /\ last.trace[2].ev = "apns_send_message"
    /\ Len(last.response) = 1
    /\ last.response[1].apns_token = copies[last.target].registration_id
    /\ last.response[1].status # "OK"

\* C7: a bulk send that reaches the gateway makes one call, to its platform's
\* bulk gateway, and the recipient list holds each registration id as many
\* times as the queryset has active devices with it: every active device's
\* id, and none on behalf of an inactive device.
C7_RecipientsAreTheActiveDevices ==
    (last.op = "bulk" /\ last.trace # <<>>) =>
       /\ Len(last.trace) = 1
       /\ last.trace[1].ev = bulk_gateway(last.target.platform)
       /\ \A r \in RegIds :
             Count(last.trace[1].arg, r) =
                Cardinality({d \in last.target.qs :
                                db[d].active /\ db[d].registration_id = r})

\* Reached: a bulk send on a queryset holding active and inactive devices.
C7_MixedQuerySetSent ==
    /\ last.op = "bulk"
    /\ last.trace # <<>>
    /\ Len(last.trace[1].arg) > 0
    /\ \E d \in last.target.qs : ~db[d].active
    /\ \E d \in last.target.qs : db[d].active

\* C8: no send issues a gateway call for a device whose stored active flag
\* is false at the time of the send.
C8_InactiveDeviceNotSent ==
    [][(last'.op = "send" /\ Deliveries(last'.trace) # {})
       => db[copies[last'.target].id].active]_vars

\* C9: in each of the three tables, no two rows of the same user share the
\* (user, registration_id) pair (rows without a user are left aside: the
\* claim is read as the database reads a unique constraint).
C9_UniqueUserRegistration ==
    \A d1, d2 \in DOMAIN db :
       (/\ d1 # d2
        /\ db[d1].platform = db[d2].platform
        /\ db[d1].registration_id = db[d2].registration_id
        /\ db[d1].user # None)
       => db[d1].user # db[d2].user

\* C10: saves are partial.  A step changes a column of a row only through a
\* save of exactly that column, made by the instance the step works on, and
\* the column then holds that instance's value; so a row once deactivated is
\* not re-activated by an instance that caches a token from a stale copy,
\* the interpreter leaves fcm_token alone and the translator leaves active
\* alone, and user, registration_id and platform never change.
C10_PartialUpdates ==
    [][\A d \in DOMAIN db :
          /\ ~db[d].active => ~db'[d].active
          /\ db'[d].fcm_token # db[d].fcm_token =>
                /\ Saved(last', {"fcm_token"})
                /\ copies'[last'.target].id = d
                /\ db'[d].fcm_token = copies'[last'.target].fcm_token
          /\ db'[d].active # db[d].active =>
                /\ Saved(last', {"active"})
                /\ copies'[last'.target].id = d
          /\ last'.op = "interpret" => db'[d].fcm_token = db[d].fcm_token
          /\ last'.op = "resolve" => db'[d].active = db[d].active
          /\ db'[d].user = db[d].user
          /\ db'[d].registration_id = db[d].registration_id
          /\ db'[d].platform = db[d].platform]_vars

\* Reached: an instance loaded before the row was deactivated (still active
\* in memory) has cached a token; the row holds active = FALSE and the token.
C10_StaleInstanceCachedTokenOfDeactivatedRow ==
    /\ last.op = "resolve"
    /\ last.saved = <<{"fcm_token"}>>
    /\ copies[last.target].active
    /\ ~db[copies[last.target].id].active
    /\ db[copies[last.target].id].fcm_token = copies[last.target].fcm_token
    /\ Truthy(db[copies[last.target].id].fcm_token)

====
